---- MODULE Spec2Model ----
(***************************************************************************)
(* Model of the Euler-tour minimum interval cover solver                   *)
(* IntervalCovering<GetL, GetR> of src/include/interval_covering.h.        *)
(*                                                                         *)
(* One solver object is modelled.  Its inputs n, L, R are fixed at         *)
(* construction; Run is called `calls` times on it.  The serial            *)
(* parts of Run are one action each; every parallel loop whose iterations  *)
(* read data written in the same loop is modelled iteration by iteration   *)
(* (and the list walkers statement by statement), in any order.            *)
(*                                                                         *)
(* Arrays keep the source's 0-based indexing: an array of length k is a    *)
(* function with domain 0..k-1.  A bool array element is 0 or 1.           *)
(***************************************************************************)
EXTENDS Integers, Sequences, FiniteSets, TLC

\* Bounds of the model.
MaxN == 3
MaxCoord == 4
\* Calls of Run on one solver object in the specification of repeated runs.
MaxRuns == 2
\* Bounds of the specification of FindFurthest alone.
MaxNFindFurthest == 4
MaxBlockSize == 3
\* The block size of the main specification: a stand-in for
\* parlay::internal::_block_size (interval_covering.h:425), scaled down so that
\* several sampled nodes occur on small inputs.
BlockSize == 4
\* kNullPtr of the source is (1 << 62) - 1; any value above every node id
\* behaves the same, and this one fits the checker's integers.
kNullPtr == 1073741823

VARIABLES
  n, L, R,                 \* the inputs captured by the constructor
  debug,                   \* TRUE: built with DEBUG (DEBUG_ONLY blocks and asserts run)
  parallel_block_size,     \* the block size the solver is built with
  rnd,                     \* rnd[i] = parlay::random(0).ith_rand(i) % (2n)
  calls,                   \* how many times the caller calls Run
  pc,                      \* position of Run
  failed,                  \* the assertion that failed, "" if none
  runs,                    \* number of calls of Run that have returned
  furthest_id, link_list, valid, sampled_id, sampled_id_nxt_initial,
  task,                    \* the iterations of the parallel loop in progress
  acc,                     \* memory accesses of the parallel loop in progress
  saved_valid,             \* ScanLinkList's DEBUG copy of the initial flags
  valid_parallel,          \* Kernel's DEBUG copy of the parallel result
  first_valid,             \* valid as the first call of Run left it
  gen                      \* the test-input generator generate_intervals

vars == <<n, L, R, debug, parallel_block_size, rnd, calls, pc, failed, runs, furthest_id, link_list, valid,
          sampled_id, sampled_id_nxt_initial, task, acc, saved_valid,
          valid_parallel, first_valid, gen>>

----------------------------------------------------------------------------
\* Helpers for 0-based arrays.

Size(a) == Cardinality(DOMAIN a)

Filled(k, x) == [i \in 0..(k - 1) |-> x]

Resize(a, k) == [i \in 0..(k - 1) |-> IF i \in DOMAIN a THEN a[i] ELSE 0]

Min(a, b) == IF a < b THEN a ELSE b

----------------------------------------------------------------------------
\* Node ids and list nodes.

l_nodeid(i) == i * 2

r_nodeid(i) == i * 2 + 1

LinkListNode(v, nx, s) == [nxt |-> nx, sampled |-> s, valid |-> v]

link(ll, from, to) == [ll EXCEPT ![from].nxt = to]

----------------------------------------------------------------------------
\* The input domain: the three preconditions in their weak form.

WeakPreconditions(k, l, r) ==
  /\ \A i \in 0..(k - 2) : l[i] <= l[i + 1] /\ r[i] <= r[i + 1]
  /\ \A i \in 0..(k - 1) : l[i] < r[i]
  /\ \A i \in 0..(k - 2) : l[i + 1] <= r[i]

\* Mutant of CheckPreconditions: the third loop (L(i + 1) <= R(i)) is lost.
CheckPreconditions_NoConnectivity ==
  IF \E i \in 0..(n - 2) : ~(L[i] < L[i + 1] /\ R[i] < R[i + 1]) THEN "Run:408"
  ELSE IF \E i \in 0..(n - 1) : ~(L[i] < R[i]) THEN "Run:413"
  ELSE ""

\* Mutant of CheckPreconditions: the third loop asserts L(i + 1) < R(i).
CheckPreconditions_StrictOverlap ==
  IF \E i \in 0..(n - 2) : ~(L[i] < L[i + 1] /\ R[i] < R[i + 1]) THEN "Run:408"
  ELSE IF \E i \in 0..(n - 1) : ~(L[i] < R[i]) THEN "Run:413"
  ELSE IF \E i \in 0..(n - 2) : ~(L[i + 1] < R[i]) THEN "Run:418"
  ELSE ""

\* The three assertion loops of Run under DEBUG, in program order: the label of
\* the first loop with a failing assertion, "" if every assertion passes.
CheckPreconditions ==
  IF \E i \in 0..(n - 2) : ~(L[i] < L[i + 1] /\ R[i] < R[i + 1]) THEN "Run:408"
  ELSE IF \E i \in 0..(n - 1) : ~(L[i] < R[i]) THEN "Run:413"
  ELSE IF \E i \in 0..(n - 2) : ~(L[i + 1] <= R[i]) THEN "Run:418"
  ELSE ""

----------------------------------------------------------------------------
\* FindFurthest.

RECURSIVE BinarySearch_NoTest(_, _, _)
\* Mutant of BinarySearch: the test of L(mid) is lost, the search always
\* keeps the upper half.
BinarySearch_NoTest(l, r, r_of_s) ==
  IF l + 1 < r THEN BinarySearch_NoTest((l + r) \div 2, r, r_of_s) ELSE l

RECURSIVE BinarySearch_Strict(_, _, _)
\* Mutant of BinarySearch: < for <= in the test of L(mid).
BinarySearch_Strict(l, r, r_of_s) ==
  IF l + 1 < r
  THEN LET mid == (l + r) \div 2
       IN  IF L[mid] < r_of_s
           THEN BinarySearch_Strict(mid, r, r_of_s)
           ELSE BinarySearch_Strict(l, mid, r_of_s)
  ELSE l

RECURSIVE BinarySearch_StopsEarly(_, _, _)
\* Mutant of BinarySearch: the loop runs while l + 2 < r.
BinarySearch_StopsEarly(l, r, r_of_s) ==
  IF l + 2 < r
  THEN LET mid == (l + r) \div 2
       IN  IF L[mid] <= r_of_s
           THEN BinarySearch_StopsEarly(mid, r, r_of_s)
           ELSE BinarySearch_StopsEarly(l, mid, r_of_s)
  ELSE l

RECURSIVE BinarySearch(_, _, _)
\* The while loop of FindFurthestSerial: the last l in [s, n) with L(l) <= R(s).
BinarySearch(l, r, r_of_s) ==
  IF l + 1 < r
  THEN LET mid == (l + r) \div 2
       IN  IF L[mid] <= r_of_s
           THEN BinarySearch(mid, r, r_of_s)
           ELSE BinarySearch(l, mid, r_of_s)
  ELSE l

RECURSIVE Advance_Strict(_, _)
\* Mutant of Advance: < for <=, an interval that only touches is not reached.
Advance_Strict(rid, r_of_j) ==
  IF rid < n /\ L[rid] < r_of_j THEN Advance_Strict(rid + 1, r_of_j) ELSE rid

RECURSIVE Advance(_, _)
\* while (rid < n && L(rid) <= r_of_j) rid++
Advance(rid, r_of_j) ==
  IF rid < n /\ L[rid] <= r_of_j THEN Advance(rid + 1, r_of_j) ELSE rid

RECURSIVE Remaining_OffByOne(_, _, _)
\* Mutant of Remaining: furthest_id[j] = rid instead of rid - 1.
Remaining_OffByOne(fid, j, e) ==
  IF j < e
  THEN Remaining_OffByOne([fid EXCEPT ![j] = Advance(fid[j - 1], R[j])], j + 1, e)
  ELSE fid

RECURSIVE Remaining(_, _, _)
\* for (j = s + 1; j < e; j++): furthest_id[j] from furthest_id[j - 1]
Remaining(fid, j, e) ==
  IF j < e
  THEN Remaining([fid EXCEPT ![j] = Advance(fid[j - 1], R[j]) - 1], j + 1, e)
  ELSE fid

\* Mutant of FindFurthestSerial: the binary search starts with r = n - 1.
FindFurthestSerial_ShortSearch(fid, s, e) ==
  Remaining([fid EXCEPT ![s] = BinarySearch(s, n - 1, R[s])], s + 1, e)

\* Mutant of FindFurthestSerial: the binary search stops at the end of the
\* block (r = e).
FindFurthestSerial_BlockLocal(fid, s, e) ==
  Remaining([fid EXCEPT ![s] = BinarySearch(s, e, R[s])], s + 1, e)

FindFurthestSerial(fid, s, e) ==
  Remaining([fid EXCEPT ![s] = BinarySearch(s, n, R[s])], s + 1, e)

\* sliced_for(n, block_size, f): block b is f(b, b * block_size, min(.., n)).
NumBlocks(bs) == (n + bs - 1) \div bs

BlockStart(b, bs) == b * bs

BlockEnd(b, bs) == Min(b * bs + bs, n)

\* What block [s, e) reads and writes of furthest_id.
BlockAccesses(b, s, e) ==
  {<<b, "w", "furthest_id", j, "">> : j \in s..(e - 1)}
    \cup {<<b, "r", "furthest_id", j - 1, "">> : j \in (s + 1)..(e - 1)}

----------------------------------------------------------------------------
\* BuildLinkList.

\* Mutant of NewLinkList: r_node(0) is not marked.
NewLinkList_NoSeed == Filled(n * 2, LinkListNode(FALSE, kNullPtr, FALSE))

\* Mutant of NewLinkList: the list of the previous call is kept when there is
\* one, only r_node(0) is marked again.
NewLinkList_Reused ==
  IF Size(link_list) = n * 2
  THEN [link_list EXCEPT ![r_nodeid(0)].valid = TRUE]
  ELSE [Filled(n * 2, LinkListNode(FALSE, kNullPtr, FALSE))
          EXCEPT ![r_nodeid(0)].valid = TRUE]

\* link_list = sequence(n * 2, LinkListNode()); r_node(0).set_valid(true)
NewLinkList ==
  [Filled(n * 2, LinkListNode(FALSE, kNullPtr, FALSE))
     EXCEPT ![r_nodeid(0)].valid = TRUE]

\* Mutant of LinkLeft: the case of a child that is not the first is lost, every
\* child is linked from its parent.
LinkLeft_AlwaysParent(ll, i) ==
  link(ll, l_nodeid(furthest_id[i]), l_nodeid(i))

\* One iteration of the loop over i in [0, n - 1): the left link.
LinkLeft(ll, i) ==
  IF i = 0 \/ furthest_id[i - 1] # furthest_id[i]
  THEN link(ll, l_nodeid(furthest_id[i]), l_nodeid(i))
  ELSE link(ll, r_nodeid(i - 1), l_nodeid(i))

\* Mutant of LinkRight: the case of the last child of the root is lost.
LinkRight_NoRootCase(ll, i) ==
  IF furthest_id[i + 1] # furthest_id[i]
  THEN link(ll, r_nodeid(i), r_nodeid(furthest_id[i]))
  ELSE ll

\* The same iteration: the right link.
LinkRight(ll, i) ==
  IF furthest_id[i + 1] # furthest_id[i]
  THEN link(ll, r_nodeid(i), r_nodeid(furthest_id[i]))
  ELSE IF i + 1 = furthest_id[i]
       THEN link(ll, r_nodeid(i), r_nodeid(i + 1))
       ELSE ll

LinkAccesses(i) ==
  {<<i, "r", "furthest_id", j, "">> : j \in {i - 1, i, i + 1} \cap 0..(n - 1)}
    \cup {<<i, "w", "link_list",
            IF i = 0 \/ furthest_id[i - 1] # furthest_id[i]
            THEN l_nodeid(furthest_id[i]) ELSE r_nodeid(i - 1), "nxt">>}
    \cup (IF furthest_id[i + 1] # furthest_id[i] \/ i + 1 = furthest_id[i]
          THEN {<<i, "w", "link_list", r_nodeid(i), "nxt">>} ELSE {})

\* Mutant of CloseList: the loop that closes the leaves is lost.
CloseList_NoLeaves(ll) == link(ll, r_nodeid(n - 1), kNullPtr)

\* The loop over i in [0, n) that closes the leaves, then the terminator.
CloseList(ll) ==
  LET closed == [x \in DOMAIN ll |->
                   IF x % 2 = 0 /\ ll[x].nxt = kNullPtr
                   THEN [ll[x] EXCEPT !.nxt = x + 1] ELSE ll[x]]
  IN  link(closed, r_nodeid(n - 1), kNullPtr)

RECURSIVE ChainWalk(_, _, _, _)
\* The DEBUG walk at the end of BuildLinkList: <<count, nodeid>> when the walk
\* stops.  The walk of a list with a cycle never stops: fuel = 0 stands for it.
ChainWalk(ll, nodeid, count, fuel) ==
  IF nodeid # r_nodeid(n - 1) /\ nodeid # kNullPtr /\ fuel > 0
  THEN ChainWalk(ll, ll[nodeid].nxt, count + 1, fuel - 1)
  ELSE <<count, nodeid>>

BuildLinkListAsserts(ll) ==
  LET w == ChainWalk(ll, l_nodeid(n - 1), 0, 2 * n + 1)
  IN  /\ w[1] = n * 2 - 1
      /\ w[2] = r_nodeid(n - 1)
      /\ ll[w[2]].nxt = kNullPtr

----------------------------------------------------------------------------
\* ScanLinkList: the serial scan, the sample, the walkers.

RECURSIVE Scan(_, _, _, _)
\* The loop of ScanLinkListSerial and of the scan over the sampled sketch:
\* valid = valid || node.valid; node.valid = valid; node = node.nxt, until
\* kNullPtr.  A scan that never reaches kNullPtr runs out of fuel (ended = FALSE).
Scan(ll, node_id, v, fuel) ==
  IF node_id = kNullPtr THEN [ll |-> ll, ended |-> TRUE]
  ELSE IF fuel = 0 THEN [ll |-> ll, ended |-> FALSE]
  ELSE LET nv == v \/ ll[node_id].valid
       IN  Scan([ll EXCEPT ![node_id].valid = nv], ll[node_id].nxt, nv, fuel - 1)

ScanLinkListSerial(ll) == Scan(ll, l_nodeid(n - 1), FALSE, 2 * n + 1)

\* Mutant of SketchScan: the scan over the sketch is left out.
SketchScan_Skip(ll, ids) == [ll |-> ll, ended |-> TRUE]

SketchScan(ll, ids) == Scan(ll, ids[0], FALSE, 2 * n + 1)

TotalSampledMax ==
  1 + (n * 2 + parallel_block_size - 1) \div parallel_block_size

\* Mutant of sample: the test of the sampled flag is lost, a node drawn twice
\* is entered twice.
sample_NoTest(st, node_id) ==
  [ll  |-> [st.ll EXCEPT ![node_id].sampled = TRUE],
   ids |-> [i \in 0..Size(st.ids) |->
              IF i < Size(st.ids) THEN st.ids[i] ELSE node_id],
   ok  |-> st.ok /\ Size(st.ids) < TotalSampledMax]

\* Mutant of sample: set_sampled(true) is lost.
sample_NoFlag(st, node_id) ==
  IF st.ll[node_id].sampled THEN st
  ELSE [ll  |-> st.ll,
        ids |-> [i \in 0..Size(st.ids) |->
                   IF i < Size(st.ids) THEN st.ids[i] ELSE node_id],
        ok  |-> st.ok /\ Size(st.ids) < TotalSampledMax]

\* The lambda sample of BuildSampleId; st.ids is sampled_id[0 .. actual_sampled).
sample(st, node_id) ==
  IF st.ll[node_id].sampled THEN st
  ELSE [ll  |-> [st.ll EXCEPT ![node_id].sampled = TRUE],
        ids |-> [i \in 0..Size(st.ids) |->
                   IF i < Size(st.ids) THEN st.ids[i] ELSE node_id],
        ok  |-> st.ok /\ Size(st.ids) < TotalSampledMax]

RECURSIVE SampleLoop(_, _)
\* for (i = 1; i < total_sampled_max; i++) sample(rnd.ith_rand(i) % nn)
SampleLoop(st, i) ==
  IF i < TotalSampledMax THEN SampleLoop(sample(st, rnd[i]), i + 1) ELSE st

\* Mutant of BuildSampleId: sample(l_nodeid(n - 1)) is lost.
BuildSampleId_NoHead(ll) ==
  SampleLoop([ll |-> ll, ids |-> Filled(0, 0), ok |-> TRUE], 1)

BuildSampleId(ll) ==
  SampleLoop(sample([ll |-> ll, ids |-> Filled(0, 0), ok |-> TRUE],
                    l_nodeid(n - 1)), 1)

\* The iterations of a parallel loop before any has started.  steps counts the
\* turns of a walker's while loop.
Tasks(k) ==
  Filled(k, [pc |-> "ready", valid |-> FALSE, node_id |-> kNullPtr, steps |-> 0])

\* Mutant of AllDone: the loop returns without waiting for its iterations.
AllDone_NoJoin == TRUE

\* parallel_for and sliced_for return when every iteration has finished.
AllDone == \A i \in DOMAIN task : task[i].pc = "done"

\* The head of a walker of the first loop (lines 238-242): the locals valid and
\* node_id, and the position after the loop test.
Walk1Head(ll, start_id, next) ==
  [pc      |-> IF ll[start_id].nxt = kNullPtr THEN next ELSE "walk",
   valid   |-> ll[start_id].valid,
   node_id |-> ll[start_id].nxt,
   steps   |-> 0]

\* Mutant of Walk2Head: the walker starts with valid = false instead of the
\* flag of its sampled node.
Walk2Head_FreshFlag(ll, start_id, nxt_initial, next) ==
  [pc      |-> IF nxt_initial = kNullPtr THEN next ELSE "walk",
   valid   |-> FALSE,
   node_id |-> nxt_initial,
   steps   |-> 0]

\* The head of a walker of the second loop (lines 277-281).
Walk2Head(ll, start_id, nxt_initial, next) ==
  [pc      |-> IF nxt_initial = kNullPtr THEN next ELSE "walk",
   valid   |-> ll[start_id].valid,
   node_id |-> nxt_initial,
   steps   |-> 0]

\* Mutant of WalkValid: the walker does not carry its flag along.
WalkValid_NoCarry(ll, t) == ll[t.node_id].valid

\* One turn of a walker's while loop: the flag it writes to its node.
WalkValid(ll, t) == t.valid \/ ll[t.node_id].valid

\* The count of a walker's turns after one more turn; it is not counted beyond
\* 2n + 1, one more than the number of nodes.
Counted(k) == IF k < 2 * n + 1 THEN k + 1 ELSE k

\* Mutant of WalkNext: node_id = nxt is lost, the walker stays on its node.
WalkNext_NoAdvance(ll, t, next) ==
  [pc      |-> IF ll[t.node_id].sampled THEN next ELSE "walk",
   valid   |-> WalkValid(ll, t),
   node_id |-> t.node_id,
   steps   |-> Counted(t.steps)]

\* Mutant of WalkNext: the break at a sampled node is lost.
WalkNext_NoBreak(ll, t, next) ==
  [pc      |-> IF ll[t.node_id].nxt = kNullPtr THEN next ELSE "walk",
   valid   |-> WalkValid(ll, t),
   node_id |-> ll[t.node_id].nxt,
   steps   |-> Counted(t.steps)]

\* One turn of a walker's while loop: the walker after it, and after the loop
\* test that follows when it did not break.
WalkNext(ll, t, next) ==
  IF ll[t.node_id].sampled
  THEN [pc |-> next, valid |-> WalkValid(ll, t), node_id |-> t.node_id,
        steps |-> Counted(t.steps)]
  ELSE [pc      |-> IF ll[t.node_id].nxt = kNullPtr THEN next ELSE "walk",
        valid   |-> WalkValid(ll, t),
        node_id |-> ll[t.node_id].nxt,
        steps   |-> Counted(t.steps)]

WalkAccesses(ll, i, t) ==
  {<<i, "r", "link_list", t.node_id, "valid">>,
   <<i, "w", "link_list", t.node_id, "valid">>,
   <<i, "r", "link_list", t.node_id, "sampled">>}
    \cup (IF ll[t.node_id].sampled THEN {}
          ELSE {<<i, "r", "link_list", t.node_id, "nxt">>})

Flags(ll) == [x \in DOMAIN ll |-> ll[x].valid]

SetFlags(ll, f) == [x \in DOMAIN ll |-> [ll[x] EXCEPT !.valid = f[x]]]

----------------------------------------------------------------------------
\* Kernel.

\* The loop of KernelParallel that derives valid from the node flags.
ExtractValid(ll) ==
  [i \in 0..(n - 1) |->
     IF ll[l_nodeid(i)].valid # ll[r_nodeid(i)].valid THEN 1 ELSE 0]

RECURSIVE KernelSerialLoop(_, _, _)
\* for (i = 1; i < n - 1; i++) of KernelSerial, with its cursor id.
KernelSerialLoop(v, i, id) ==
  IF i < n - 1
  THEN IF L[i + 1] > R[id]
       THEN KernelSerialLoop([v EXCEPT ![i] = 1], i + 1, i)
       ELSE KernelSerialLoop([v EXCEPT ![i] = 0], i + 1, id)
  ELSE v

KernelSerial(v) ==
  KernelSerialLoop([[v EXCEPT ![0] = 1] EXCEPT ![n - 1] = 1], 1, 0)

----------------------------------------------------------------------------
\* The state after construction.  Every input of at most MaxN intervals with
\* endpoints in 0..MaxCoord that meets the weak preconditions is considered,
\* in a DEBUG and in a release build.  The hash behind ith_rand is not part of
\* the repository: every value of ith_rand(i) % (2n) is considered, and the
\* same values are drawn in every call of Run (the seed is the constant 0).

inputs == <<n, L, R, debug, parallel_block_size, rnd, calls, gen>>

\* The solver's runs below take their input directly: the generator is not called.
GenUnused == [pc |-> "unused"]

Start(maxn, sizes, all_draws, ncalls) ==
  /\ n \in 0..maxn
  /\ L \in [0..(n - 1) -> 0..MaxCoord]
  /\ R \in [0..(n - 1) -> 0..MaxCoord]
  /\ WeakPreconditions(n, L, R)
  /\ debug \in BOOLEAN
  /\ parallel_block_size \in sizes
  /\ rnd \in [1..(TotalSampledMax - 1) ->
                IF all_draws THEN 0..(n * 2 - 1) ELSE {0}]
  /\ calls = ncalls
  /\ pc = "idle"
  /\ failed = ""
  /\ runs = 0
  /\ furthest_id = Filled(n, 0)
  /\ link_list = Filled(0, 0)
  /\ valid = Filled(0, 0)
  /\ sampled_id = Filled(0, 0)
  /\ sampled_id_nxt_initial = Filled(0, 0)
  /\ task = Filled(0, 0)
  /\ acc = {}
  /\ saved_valid = Filled(0, 0)
  /\ valid_parallel = Filled(0, 0)
  /\ first_valid = Filled(0, 0)
  /\ gen = GenUnused

\* One call of Run on a fresh solver.
Init == Start(MaxN, {BlockSize}, TRUE, 1)

\* Run called MaxRuns times on the same solver.
InitRerun == Start(MaxN, {BlockSize}, TRUE, MaxRuns)

\* FindFurthest alone, for every block size up to MaxBlockSize (the sample is
\* not drawn before FindFurthest returns, so one draw is enough).
InitFindFurthest == Start(MaxNFindFurthest, 1..MaxBlockSize, FALSE, 1)

\* A DEBUG build given any input, whether or not it meets the preconditions.
\* (A release build assumes them: on other inputs its behaviour is undefined.)
InitAnyInput ==
  /\ n \in 0..MaxN
  /\ L \in [0..(n - 1) -> 0..MaxCoord]
  /\ R \in [0..(n - 1) -> 0..MaxCoord]
  /\ debug = TRUE
  /\ parallel_block_size = BlockSize
  /\ rnd \in [1..(TotalSampledMax - 1) -> {0}]
  /\ calls = 1
  /\ pc = "idle"
  /\ failed = ""
  /\ runs = 0
  /\ furthest_id = Filled(n, 0)
  /\ link_list = Filled(0, 0)
  /\ valid = Filled(0, 0)
  /\ sampled_id = Filled(0, 0)
  /\ sampled_id_nxt_initial = Filled(0, 0)
  /\ task = Filled(0, 0)
  /\ acc = {}
  /\ saved_valid = Filled(0, 0)
  /\ valid_parallel = Filled(0, 0)
  /\ first_valid = Filled(0, 0)
  /\ gen = GenUnused

\* Run up to the return of BuildLinkList, on up to MaxNFindFurthest intervals.
InitBuildLinkList == Start(MaxNFindFurthest, {BlockSize}, FALSE, 1)

\* Run returns, leaving v in valid.
Return(v) ==
  /\ pc' = "done"
  /\ runs' = runs + 1
  /\ first_valid' = IF runs = 0 THEN v ELSE first_valid

\* An assertion fails: the process aborts.
Abort(label) ==
  /\ pc' = "aborted"
  /\ failed' = label
  /\ UNCHANGED <<runs, first_valid>>

Goto(p) ==
  /\ pc' = p
  /\ UNCHANGED <<failed, runs, first_valid>>

----------------------------------------------------------------------------
\* Mutant of Run: the early return for n = 0 is lost.
Run_NoEmptyReturn ==
  /\ pc \in {"idle", "done"}
  /\ runs < calls
  /\ valid' = Filled(n, 0)
  /\ IF debug /\ CheckPreconditions # ""
     THEN Abort(CheckPreconditions) /\ UNCHANGED <<task, acc>>
     ELSE /\ Goto("FindFurthest")
          /\ task' = Tasks(NumBlocks(parallel_block_size))
          /\ acc' = {}
  /\ UNCHANGED <<inputs, furthest_id, link_list, sampled_id,
                 sampled_id_nxt_initial, saved_valid, valid_parallel>>

\* Run, lines 398-421: the n = 0 return, the allocation of valid, the DEBUG
\* assertions; then FindFurthestParallel's sliced_for starts.
Run ==
  /\ pc \in {"idle", "done"}
  /\ runs < calls
  /\ IF n = 0
     THEN /\ Return(valid)
          /\ UNCHANGED <<failed, valid, task, acc>>
     ELSE /\ valid' = Filled(n, 0)
          /\ IF debug /\ CheckPreconditions # ""
             THEN Abort(CheckPreconditions) /\ UNCHANGED <<task, acc>>
             ELSE /\ Goto("FindFurthest")
                  /\ task' = Tasks(NumBlocks(parallel_block_size))
                  /\ acc' = {}
  /\ UNCHANGED <<inputs, furthest_id, link_list, sampled_id,
                 sampled_id_nxt_initial, saved_valid, valid_parallel>>

\* One block of FindFurthestParallel.
FindFurthestBlock(b) ==
  /\ pc = "FindFurthest"
  /\ task[b].pc = "ready"
  /\ LET s == BlockStart(b, parallel_block_size)
         e == BlockEnd(b, parallel_block_size)
     IN  /\ furthest_id' = FindFurthestSerial(furthest_id, s, e)
         /\ acc' = acc \cup BlockAccesses(b, s, e)
  /\ task' = [task EXCEPT ![b].pc = "done"]
  /\ UNCHANGED <<inputs, pc, failed, runs, first_valid, link_list, valid,
                 sampled_id, sampled_id_nxt_initial, saved_valid, valid_parallel>>

\* The join of FindFurthestParallel and the DEBUG block of FindFurthest, which
\* recomputes the table serially and leaves the parallel table in furthest_id.
FindFurthest ==
  /\ pc = "FindFurthest"
  /\ AllDone
  /\ IF debug /\ FindFurthestSerial(Filled(n, 0), 0, n) # furthest_id
     THEN Abort("FindFurthest:123")
     ELSE Goto("BuildLinkList")
  /\ UNCHANGED <<inputs, furthest_id, link_list, valid, sampled_id,
                 sampled_id_nxt_initial, task, acc, saved_valid, valid_parallel>>

\* BuildLinkList, lines 133-135: the fresh list; the loop over [0, n - 1) starts.
BuildLinkListBegin ==
  /\ pc = "BuildLinkList"
  /\ link_list' = NewLinkList
  /\ task' = Tasks(n - 1)
  /\ acc' = {}
  /\ Goto("link")
  /\ UNCHANGED <<inputs, furthest_id, valid, sampled_id,
                 sampled_id_nxt_initial, saved_valid, valid_parallel>>

\* One iteration of the loop over [0, n - 1), lines 136-152.
BuildLinkListIter(i) ==
  /\ pc = "link"
  /\ task[i].pc = "ready"
  /\ link_list' = LinkRight(LinkLeft(link_list, i), i)
  /\ acc' = acc \cup LinkAccesses(i)
  /\ task' = [task EXCEPT ![i].pc = "done"]
  /\ UNCHANGED <<inputs, pc, failed, runs, first_valid, furthest_id, valid,
                 sampled_id, sampled_id_nxt_initial, saved_valid, valid_parallel>>

\* The rest of BuildLinkList, lines 154-193.
BuildLinkListEnd ==
  /\ pc = "link"
  /\ AllDone
  /\ link_list' = CloseList(link_list)
  /\ IF debug /\ ~BuildLinkListAsserts(link_list')
     THEN Abort("BuildLinkList:191")
     ELSE Goto("ScanLinkList")
  /\ UNCHANGED <<inputs, furthest_id, valid, sampled_id,
                 sampled_id_nxt_initial, task, acc, saved_valid, valid_parallel>>

\* ScanLinkList saves the flags (DEBUG); ScanLinkListParallel, lines 232-235:
\* BuildSampleId, the resize; the first walker loop starts.
ScanLinkListBegin ==
  /\ pc = "ScanLinkList"
  /\ saved_valid' = IF debug THEN Flags(link_list) ELSE saved_valid
  /\ LET st == BuildSampleId(link_list)
     IN  /\ link_list' = st.ll
         /\ sampled_id' = st.ids
         /\ sampled_id_nxt_initial' = Resize(sampled_id_nxt_initial, Size(st.ids))
         /\ task' = Tasks(Size(st.ids))
         /\ IF debug /\ ~st.ok THEN Abort("BuildSampleId:218") ELSE Goto("scan1")
  /\ acc' = {}
  /\ UNCHANGED <<inputs, furthest_id, valid, valid_parallel>>

\* First walker loop, iteration i, lines 238-242.
Walk1Begin(i) ==
  /\ pc = "scan1"
  /\ task[i].pc = "ready"
  /\ sampled_id_nxt_initial' =
       [sampled_id_nxt_initial EXCEPT ![i] = link_list[sampled_id[i]].nxt]
  /\ task' = [task EXCEPT ![i] = Walk1Head(link_list, sampled_id[i], "link")]
  /\ acc' = acc \cup {<<i, "w", "sampled_id_nxt_initial", i, "">>,
                      <<i, "r", "link_list", sampled_id[i], "nxt">>,
                      <<i, "r", "link_list", sampled_id[i], "valid">>}
  /\ UNCHANGED <<inputs, pc, failed, runs, first_valid, furthest_id, link_list,
                 valid, sampled_id, saved_valid, valid_parallel>>

\* First walker loop, iteration i: one turn of the while loop, lines 243-250.
Walk1Step(i) ==
  /\ pc = "scan1"
  /\ task[i].pc = "walk"
  /\ link_list' =
       [link_list EXCEPT ![task[i].node_id].valid = WalkValid(link_list, task[i])]
  /\ task' = [task EXCEPT ![i] = WalkNext(link_list, task[i], "link")]
  /\ acc' = acc \cup WalkAccesses(link_list, i, task[i])
  /\ UNCHANGED <<inputs, pc, failed, runs, first_valid, furthest_id, valid,
                 sampled_id, sampled_id_nxt_initial, saved_valid, valid_parallel>>

\* First walker loop, iteration i: link(sampled_id[i], node_id), line 253.
Walk1Link(i) ==
  /\ pc = "scan1"
  /\ task[i].pc = "link"
  /\ link_list' = link(link_list, sampled_id[i], task[i].node_id)
  /\ task' = [task EXCEPT ![i].pc = "done"]
  /\ acc' = acc \cup {<<i, "w", "link_list", sampled_id[i], "nxt">>}
  /\ UNCHANGED <<inputs, pc, failed, runs, first_valid, furthest_id, valid,
                 sampled_id, sampled_id_nxt_initial, saved_valid, valid_parallel>>

\* The join of the first loop and the scan over the sampled sketch, lines
\* 256-265; the second walker loop starts.  Reading sampled_id[0] of an empty
\* sampled_id is out of range: the run ends there.
ScanSketch ==
  /\ pc = "scan1"
  /\ AllDone
  /\ IF 0 \notin DOMAIN sampled_id
     THEN Abort("ScanLinkListParallel:258") /\ UNCHANGED link_list
     ELSE LET r == SketchScan(link_list, sampled_id)
          IN  /\ link_list' = r.ll
              /\ Goto(IF r.ended THEN "scan2" ELSE "diverged")
  /\ task' = Tasks(Size(sampled_id))
  /\ acc' = {}
  /\ UNCHANGED <<inputs, furthest_id, valid, sampled_id,
                 sampled_id_nxt_initial, saved_valid, valid_parallel>>

\* Mutant of Walk2Begin: link(start_id, sampled_id_nxt_initial[i]) is lost.
Walk2Begin_NoRestore(i) ==
  /\ pc = "scan2"
  /\ task[i].pc = "ready"
  /\ task' = [task EXCEPT ![i] = Walk2Head(link_list, sampled_id[i],
                                             sampled_id_nxt_initial[i], "done")]
  /\ acc' = acc \cup {<<i, "r", "link_list", sampled_id[i], "valid">>,
                      <<i, "r", "sampled_id_nxt_initial", i, "">>}
  /\ UNCHANGED <<inputs, pc, failed, runs, first_valid, furthest_id, link_list,
                 valid, sampled_id, sampled_id_nxt_initial, saved_valid,
                 valid_parallel>>

\* Second walker loop, iteration i, lines 277-281.
Walk2Begin(i) ==
  /\ pc = "scan2"
  /\ task[i].pc = "ready"
  /\ link_list' = link(link_list, sampled_id[i], sampled_id_nxt_initial[i])
  /\ task' = [task EXCEPT ![i] = Walk2Head(link_list, sampled_id[i],
                                             sampled_id_nxt_initial[i], "done")]
  /\ acc' = acc \cup {<<i, "r", "link_list", sampled_id[i], "valid">>,
                      <<i, "w", "link_list", sampled_id[i], "nxt">>,
                      <<i, "r", "sampled_id_nxt_initial", i, "">>}
  /\ UNCHANGED <<inputs, pc, failed, runs, first_valid, furthest_id, valid,
                 sampled_id, sampled_id_nxt_initial, saved_valid, valid_parallel>>

\* Second walker loop, iteration i: one turn of the while loop, lines 282-289.
Walk2Step(i) ==
  /\ pc = "scan2"
  /\ task[i].pc = "walk"
  /\ link_list' =
       [link_list EXCEPT ![task[i].node_id].valid = WalkValid(link_list, task[i])]
  /\ task' = [task EXCEPT ![i] = WalkNext(link_list, task[i], "done")]
  /\ acc' = acc \cup WalkAccesses(link_list, i, task[i])
  /\ UNCHANGED <<inputs, pc, failed, runs, first_valid, furthest_id, valid,
                 sampled_id, sampled_id_nxt_initial, saved_valid, valid_parallel>>

\* The join of the second loop; under DEBUG the rest of ScanLinkList, lines
\* 319-342: the flags are restored, scanned serially and compared.
ScanLinkListEnd ==
  /\ pc = "scan2"
  /\ AllDone
  /\ IF debug
     THEN LET r == ScanLinkListSerial(SetFlags(link_list, saved_valid))
          IN  /\ link_list' = r.ll
              /\ IF ~r.ended THEN Goto("diverged")
                 ELSE IF Flags(r.ll) # Flags(link_list)
                      THEN Abort("ScanLinkList:338")
                      ELSE Goto("extract")
     ELSE /\ link_list' = link_list
          /\ Goto("extract")
  /\ UNCHANGED <<inputs, furthest_id, valid, sampled_id,
                 sampled_id_nxt_initial, task, acc, saved_valid, valid_parallel>>

\* The last loop of KernelParallel, lines 353-355; a release build returns.
KernelParallelEnd ==
  /\ pc = "extract"
  /\ valid' = ExtractValid(link_list)
  /\ IF debug THEN Goto("verify") ELSE Return(valid') /\ UNCHANGED failed
  /\ UNCHANGED <<inputs, furthest_id, link_list, sampled_id,
                 sampled_id_nxt_initial, task, acc, saved_valid, valid_parallel>>

\* The DEBUG block of Kernel, lines 376-395: valid is zeroed, recomputed by
\* KernelSerial and compared with the parallel result.
KernelVerify ==
  /\ pc = "verify"
  /\ valid_parallel' = valid
  /\ valid' = KernelSerial(Filled(n, 0))
  /\ IF valid' # valid
     THEN Abort("Kernel:392")
     ELSE Return(valid') /\ UNCHANGED failed
  /\ UNCHANGED <<inputs, furthest_id, link_list, sampled_id,
                 sampled_id_nxt_initial, task, acc, saved_valid>>

Next ==
  \/ Run
  \/ \E b \in DOMAIN task : FindFurthestBlock(b)
  \/ FindFurthest
  \/ BuildLinkListBegin
  \/ \E i \in DOMAIN task : BuildLinkListIter(i)
  \/ BuildLinkListEnd
  \/ ScanLinkListBegin
  \/ \E i \in DOMAIN task : Walk1Begin(i)
  \/ \E i \in DOMAIN task : Walk1Step(i)
  \/ \E i \in DOMAIN task : Walk1Link(i)
  \/ ScanSketch
  \/ \E i \in DOMAIN task : Walk2Begin(i)
  \/ \E i \in DOMAIN task : Walk2Step(i)
  \/ ScanLinkListEnd
  \/ KernelParallelEnd
  \/ KernelVerify

Spec == Init /\ [][Next]_vars

SpecRerun == InitRerun /\ [][Next]_vars

\* One call of Run under a fair schedule: parlay's scheduler runs every forked
\* iteration, and a running thread executes its next statement, so a step
\* that stays possible is eventually taken.
SpecFair == Init /\ [][Next]_vars /\ WF_vars(Next)

SpecAnyInput == InitAnyInput /\ [][Next]_vars

\* The part of Run up to the return of FindFurthest.
NextFindFurthest ==
  \/ Run
  \/ \E b \in DOMAIN task : FindFurthestBlock(b)
  \/ FindFurthest

SpecFindFurthest == InitFindFurthest /\ [][NextFindFurthest]_vars

\* The part of Run up to the return of BuildLinkList.
NextBuildLinkList ==
  \/ Run
  \/ \E b \in DOMAIN task : FindFurthestBlock(b)
  \/ FindFurthest
  \/ BuildLinkListBegin
  \/ \E i \in DOMAIN task : BuildLinkListIter(i)
  \/ BuildLinkListEnd

SpecBuildLinkList == InitBuildLinkList /\ [][NextBuildLinkList]_vars

----------------------------------------------------------------------------
\* Notions the properties below are stated in.

\* Run has returned from a call that ran the kernel.
Returned == pc = "done" /\ n >= 1

Zeros == Filled(n, 0)

Selected == {i \in 0..(n - 1) : valid[i] # 0}

\* The union of the intervals of T is [L(0), R(n-1)].  With integer endpoints
\* a closed segment is covered iff its integer and half-integer points are;
\* x ranges over the doubled coordinates.
IsCover(T) ==
  /\ \A i \in T : L[0] <= L[i] /\ R[i] <= R[n - 1]
  /\ \A x \in (2 * L[0])..(2 * R[n - 1]) :
       \E i \in T : 2 * L[i] <= x /\ x <= 2 * R[i]

NoSmallerCover(S) ==
  \A T \in SUBSET (0..(n - 1)) : IsCover(T) => Cardinality(T) >= Cardinality(S)

RECURSIVE PathFrom(_, _)
\* i, furthest_id[i], furthest_id[furthest_id[i]], ... up to its fixed point.
PathFrom(i, fuel) ==
  IF furthest_id[i] = i \/ fuel = 0 THEN {i}
  ELSE {i} \cup PathFrom(furthest_id[i], fuel - 1)

GreedyPath == PathFrom(0, n)

\* Two accesses of one location by different iterations, one of them a write.
Conflict(x, y) ==
  /\ x[1] # y[1]
  /\ x[3] = y[3] /\ x[4] = y[4] /\ x[5] = y[5]
  /\ x[2] = "w" \/ y[2] = "w"

\* The list as one schedule builds and scans it: every parallel loop runs its
\* iterations one after the other, in index order.
RECURSIVE SeqLinks(_, _)
SeqLinks(ll, i) ==
  IF i < n - 1 THEN SeqLinks(LinkRight(LinkLeft(ll, i), i), i + 1) ELSE ll

RECURSIVE SeqWalk(_, _, _)
SeqWalk(ll, t, next) ==
  IF t.pc = "walk"
  THEN SeqWalk([ll EXCEPT ![t.node_id].valid = WalkValid(ll, t)],
               WalkNext(ll, t, next), next)
  ELSE [ll |-> ll, t |-> t]

RECURSIVE SeqLoop1(_, _, _)
SeqLoop1(ll, ids, i) ==
  IF i < Size(ids)
  THEN LET w == SeqWalk(ll, Walk1Head(ll, ids[i], "link"), "link")
       IN  SeqLoop1(link(w.ll, ids[i], w.t.node_id), ids, i + 1)
  ELSE ll

RECURSIVE SeqLoop2(_, _, _, _)
SeqLoop2(ll, ll0, ids, i) ==
  IF i < Size(ids)
  THEN LET t == Walk2Head(ll, ids[i], ll0[ids[i]].nxt, "done")
           w == SeqWalk(link(ll, ids[i], ll0[ids[i]].nxt), t, "done")
       IN  SeqLoop2(w.ll, ll0, ids, i + 1)
  ELSE ll

SeqScanned ==
  LET st == BuildSampleId(CloseList(SeqLinks(NewLinkList, 0)))
      sk == SketchScan(SeqLoop1(st.ll, st.ids, 0), st.ids)
  IN  SeqLoop2(sk.ll, st.ll, st.ids, 0)

----------------------------------------------------------------------------
\* C1: whenever the parallel kernel has filled valid (a release build has
\* returned, or a DEBUG build is about to cross-check), valid equals what
\* KernelSerial computes from the same input, index by index; a DEBUG build
\* never fails the cross-check of Kernel.
ParallelEqualsSerial ==
  /\ (n >= 1 /\ (pc = "verify" \/ (pc = "done" /\ ~debug)))
       => valid = KernelSerial(Zeros)
  /\ (Returned /\ debug) => valid_parallel = valid
  /\ failed # "Kernel:392"

\* A release run of three intervals with three sampled nodes that skips one.
ParallelEqualsSerialWitness ==
  /\ pc = "done" /\ ~debug /\ n = 3
  /\ valid[1] = 0
  /\ Size(sampled_id) = 3

\* C2 as stated: after Run on any input meeting the weak preconditions the
\* selected set is a cover of [L(0), R(n-1)] and no cover has fewer members.
MinimumCover ==
  Returned => IsCover(Selected) /\ NoSmallerCover(Selected)

\* C2 amended: the selected set always is a cover of [L(0), R(n-1)]; no cover
\* has fewer members when the first left endpoint and the last right endpoint
\* are not repeated (L(0) < L(1) and R(n-2) < R(n-1), for n >= 2).
MinimumCoverDistinctEnds ==
  Returned =>
    /\ IsCover(Selected)
    /\ (n >= 2 => L[0] < L[1] /\ R[n - 2] < R[n - 1]) => NoSmallerCover(Selected)

\* A weakly, not strictly, monotone input with distinct ends, one interval
\* skipped.
MinimumCoverWitness ==
  /\ pc = "done" /\ n = 3
  /\ L[0] < L[1] /\ R[1] < R[2] /\ L[1] = L[2]
  /\ valid[1] = 0

\* C3: after Run on n >= 1 intervals, valid[0] = 1 and valid[n-1] = 1.
EndsSelected ==
  Returned => valid[0] = 1 /\ valid[n - 1] = 1

EndsSelectedWitness ==
  /\ pc = "done" /\ ~debug /\ n = 3
  /\ Size(sampled_id) = 2
  /\ Selected = {0, 2}

\* C4: after Run, consecutive selected intervals leave no gap:
\* L(s_{k+1}) <= R(s_k).
NoGap ==
  Returned =>
    \A i \in Selected : \A j \in Selected :
      (i < j /\ \A k \in Selected : ~(i < k /\ k < j)) => L[j] <= R[i]

\* Two selected intervals that are not neighbours and only touch.
NoGapWitness ==
  /\ pc = "done" /\ n = 3
  /\ Selected = {0, 2}
  /\ L[2] = R[0]

\* C5: after the list scan the flags of l_node(i) and r_node(i) differ exactly
\* for the i on the greedy path 0, furthest_id[0], ..., which ends at n - 1;
\* after Run valid[i] # 0 exactly for those i.
GreedyPathSelected ==
  /\ pc = "extract" =>
       /\ n - 1 \in GreedyPath
       /\ \A i \in 0..(n - 1) :
            (link_list[l_nodeid(i)].valid # link_list[r_nodeid(i)].valid)
              <=> i \in GreedyPath
  /\ Returned => Selected = GreedyPath

\* A release run past the parallel scan whose greedy path skips interval 1.
GreedyPathSelectedWitness ==
  /\ pc = "extract" /\ ~debug /\ n = 3
  /\ GreedyPath = {0, 2}
  /\ Size(sampled_id) = 3

\* C6: after FindFurthest, furthest_id[i] is the largest j in [i, n) with
\* L(j) <= R(i), for every block size.
FurthestIsMax ==
  pc = "BuildLinkList" =>
    \A i \in 0..(n - 1) :
      /\ furthest_id[i] \in i..(n - 1)
      /\ L[furthest_id[i]] <= R[i]
      /\ \A j \in i..(n - 1) : L[j] <= R[i] => j <= furthest_id[i]

\* Several blocks, and a jump that leaves the block it starts in.
FurthestIsMaxWitness ==
  /\ pc = "BuildLinkList" /\ n = 4
  /\ parallel_block_size = 2
  /\ furthest_id[1] = 2 /\ furthest_id[2] = 3

\* C7 as stated: in no parallel loop is a location written by one iteration
\* and read or written by another.
NoDataRace ==
  \A x \in acc : \A y \in acc : ~Conflict(x, y)

\* C8: whatever the interleaving of the walkers, the list after
\* ScanLinkListParallel and valid after Run are those of the schedule that
\* runs the iterations of every loop in index order.
ScheduleIndependent ==
  /\ (pc = "scan2" /\ AllDone) => link_list = SeqScanned
  /\ Returned => valid = ExtractValid(SeqScanned)

\* The second walker loop has finished and two of its iterations did touch
\* the same flag, one writing it.
ScheduleIndependentWitness ==
  /\ pc = "scan2" /\ AllDone /\ n = 3
  /\ Size(sampled_id) = 3
  /\ \E x \in acc : \E y \in acc : Conflict(x, y)

\* C9: a second Run on the same solver returns without a failed assertion
\* and leaves valid as the first Run left it.
Idempotent ==
  /\ (pc = "done" /\ runs >= 2) => valid = first_valid
  /\ runs >= 1 => pc \notin {"aborted", "diverged"}

IdempotentWitness ==
  /\ pc = "done" /\ runs = 2 /\ n = 3
  /\ Size(sampled_id) = 3
  /\ valid[1] = 0

\* C10 as stated: under DEBUG no precondition assertion of Run fails on an
\* input that meets the weak preconditions.
WeakInputPassesChecks ==
  failed \notin {"Run:408", "Run:413", "Run:418"}

\* C11: in a DEBUG build, once Run has been called on an input that violates a
\* precondition (some L(i) >= R(i), some L(i+1) > R(i), or L or R not
\* monotone), Run is stopped by a failed assertion of its own before Kernel:
\* furthest_id and link_list are untouched, nothing is sampled, and valid
\* holds no selection.
PreconditionViolationAborts ==
  (debug /\ ~WeakPreconditions(n, L, R) /\ pc # "idle") =>
    /\ pc = "aborted"
    /\ failed \in {"Run:408", "Run:413", "Run:418"}
    /\ runs = 0
    /\ furthest_id = Filled(n, 0)
    /\ link_list = Filled(0, 0)
    /\ sampled_id = Filled(0, 0)
    /\ sampled_id_nxt_initial = Filled(0, 0)
    /\ valid = Zeros

\* C11: three strictly increasing non-empty intervals with a gap: only the
\* third assertion loop stops the run.
PreconditionViolationAbortsWitness ==
  /\ debug /\ n = 3
  /\ pc = "aborted" /\ failed = "Run:418"
  /\ L[2] > R[1]

\* C12: on every input meeting the preconditions and under every fair schedule
\* Run comes to its end (it returns; a DEBUG build may instead stop at the
\* monotonicity assertion of Run): no walker takes more than 2n turns, and
\* neither the scan over the sampled sketch nor the serial scan runs on without
\* reaching kNullPtr.
Terminates ==
  /\ [](pc # "diverged" /\ \A i \in DOMAIN task : task[i].steps <= 2 * n)
  /\ <>(pc = "done" \/ failed = "Run:408")

\* C12: Run has returned after a single walker went through the whole list of
\* three intervals, the five nodes behind the head.
TerminatesWitness ==
  /\ pc = "done" /\ n = 3
  /\ Size(sampled_id) = 1
  /\ task[0].steps = 5

\* The positions of Run in program order.
Phases ==
  <<"idle", "FindFurthest", "BuildLinkList", "link", "ScanLinkList", "scan1",
    "scan2", "extract", "verify", "done">>

Rank(p) == CHOOSE k \in 1..Len(Phases) : Phases[k] = p

\* C13: Run goes through FindFurthest, BuildLinkList, the sample, the first
\* walker loop, the scan over the sketch, the second walker loop and the
\* extraction of valid in this order, one position at a time; it leaves a
\* parallel loop only when every iteration of the loop has finished; each
\* array is written only in its own phase; and when Run returns valid has its
\* n entries, the ones the extraction derived from the list.
PhaseOrder ==
  [][/\ pc' # pc =>
          /\ \/ pc' = "aborted"
             \/ Rank(pc') = Rank(pc) + 1
             \/ pc = "idle" /\ pc' = "done" /\ n = 0
             \/ pc = "extract" /\ pc' = "done" /\ ~debug
          /\ pc \in {"FindFurthest", "link", "scan1", "scan2"} =>
               \A i \in DOMAIN task : task[i].pc = "done"
     /\ furthest_id' # furthest_id => pc = "FindFurthest" /\ pc' = pc
     /\ sampled_id' # sampled_id => pc = "ScanLinkList"
     /\ sampled_id_nxt_initial' # sampled_id_nxt_initial =>
          pc \in {"ScanLinkList", "scan1"}
     /\ link_list' # link_list =>
          pc \in {"BuildLinkList", "link", "ScanLinkList", "scan1", "scan2"}
     /\ valid' # valid => pc \in {"idle", "extract", "verify"}
     /\ (pc' = "done" /\ pc # "done" /\ n >= 1) =>
          /\ DOMAIN valid' = 0..(n - 1)
          /\ valid' = ExtractValid(link_list')
    ]_vars

\* C13: a release run of three intervals has returned after loops of three
\* walkers each.
PhaseOrderWitness ==
  /\ pc = "done" /\ ~debug /\ n = 3
  /\ Size(sampled_id) = 3
  /\ \A i \in DOMAIN task : task[i].pc = "done" /\ task[i].steps >= 1
  /\ valid = ExtractValid(link_list)

\* C14: with n = 0 Run returns at once: it never enters a kernel phase, fails
\* no assertion, starts no parallel loop, and every array of the solver,
\* valid included, stays empty.
EmptyInputReturns ==
  n = 0 =>
    /\ pc \in {"idle", "done"}
    /\ failed = ""
    /\ valid = Filled(0, 0)
    /\ furthest_id = Filled(0, 0)
    /\ link_list = Filled(0, 0)
    /\ sampled_id = Filled(0, 0)
    /\ sampled_id_nxt_initial = Filled(0, 0)
    /\ task = Filled(0, 0)
    /\ acc = {}

\* C14: Run has returned from its call on the empty input.
EmptyInputReturnsWitness ==
  n = 0 /\ pc = "done" /\ runs = 1 /\ Size(valid) = 0

\* Every index the solver holds or has used in the parallel loop in progress
\* lies inside the array it indexes.
InRange ==
  /\ \A i \in DOMAIN furthest_id : furthest_id[i] \in 0..(n - 1)
  /\ \A x \in DOMAIN link_list :
       link_list[x].nxt = kNullPtr \/ link_list[x].nxt \in DOMAIN link_list
  /\ \A i \in DOMAIN sampled_id : sampled_id[i] \in DOMAIN link_list
  /\ Size(sampled_id) <= TotalSampledMax
  /\ pc \in {"scan1", "scan2"} =>
       /\ 0 \in DOMAIN sampled_id
       /\ DOMAIN task = DOMAIN sampled_id
       /\ DOMAIN sampled_id_nxt_initial = DOMAIN sampled_id
       /\ \A i \in DOMAIN task :
            task[i].pc = "walk" => task[i].node_id \in DOMAIN link_list
  /\ \A x \in acc :
       x[4] \in (CASE x[3] = "furthest_id" -> DOMAIN furthest_id
                   [] x[3] = "link_list" -> DOMAIN link_list
                   [] OTHER -> DOMAIN sampled_id_nxt_initial)
  /\ failed \notin {"ScanLinkListParallel:258", "BuildSampleId:218"}

\* C15: when Run returns, valid = [1] for n = 1 and valid = [1, 1] for n = 2;
\* and for n = 1 and n = 2 no phase uses an index outside its array.
SmallInputsAllSelected ==
  /\ (Returned /\ n \in {1, 2}) => valid = Filled(n, 1)
  /\ n \in {1, 2} => InRange

\* C15: a release run on two intervals has returned, with two sampled nodes.
SmallInputsAllSelectedWitness ==
  /\ pc = "done" /\ ~debug /\ n = 2
  /\ Size(sampled_id) = 2
  /\ valid = Filled(2, 1)

\* Intervals i and j are the same interval.
Identical(i, j) == L[i] = L[j] /\ R[i] = R[j]

\* C16 as stated: when Run returns, no two selected intervals are identical.
NoIdenticalSelected ==
  Returned =>
    \A i \in Selected : \A j \in Selected : i < j => ~Identical(i, j)

\* C16 amended: when Run returns, the only two selected intervals that can be
\* identical are the first and the last, which are always selected and are
\* identical exactly when all n intervals are.
NoIdenticalSelectedButEnds ==
  Returned =>
    \A i \in Selected : \A j \in Selected :
      (i < j /\ Identical(i, j)) => i = 0 /\ j = n - 1

\* C16: the first two of three intervals are identical, the third is not, and
\* Run has selected only one of the two.
NoIdenticalSelectedWitness ==
  /\ pc = "done" /\ n = 3
  /\ Identical(0, 1) /\ ~Identical(1, 2)
  /\ Selected = {0, 2}

\* Interval i + 1 starts where interval i ends.
Touching(i) == L[i + 1] = R[i]

\* Each interval only touches its successor: L(i+1) = R(i) < L(i+2).
TouchingChain ==
  /\ \A i \in 0..(n - 2) : Touching(i)
  /\ \A i \in 0..(n - 3) : R[i] < L[i + 2]

\* C17: an input in which some interval only touches its successor is not
\* rejected for it (the assertion L(i+1) <= R(i) never fails, and a chain of
\* touching intervals fails no assertion at all); once FindFurthest is done,
\* furthest_id[i] >= i + 1 wherever L(i+1) = R(i); and on a chain in which each
\* interval only touches its successor Run returns with every interval
\* selected.
TouchingIsConnected ==
  /\ failed # "Run:418"
  /\ TouchingChain => pc \notin {"aborted", "diverged"}
  /\ pc \notin {"idle", "FindFurthest", "aborted"} =>
       \A i \in 0..(n - 2) : Touching(i) => furthest_id[i] >= i + 1
  /\ (Returned /\ TouchingChain) => valid = Filled(n, 1)

\* C17: a DEBUG run on a chain of three touching intervals has returned.
TouchingIsConnectedWitness ==
  /\ pc = "done" /\ debug /\ n = 3
  /\ TouchingChain
  /\ valid = Filled(3, 1)

\* The list BuildLinkList leaves (its loops write disjoint links, so the order
\* of their iterations does not matter).
BuiltList == CloseList(SeqLinks(NewLinkList, 0))

\* C18: when the second walker loop has finished, for every sample and every
\* interleaving, the flag of each of the 2n nodes is the one
\* ScanLinkListSerial leaves on the list as BuildLinkList built it (the OR of
\* the initial flags from l_node(n-1) up to the node); the DEBUG comparison of
\* ScanLinkList never fails.
ParallelScanEqualsSerialScan ==
  /\ (pc = "scan2" /\ AllDone) =>
       /\ DOMAIN link_list = 0..(2 * n - 1)
       /\ Flags(link_list) = Flags(ScanLinkListSerial(BuiltList).ll)
  /\ failed # "ScanLinkList:338"

\* C18: a release run of three intervals is at the end of the parallel scan;
\* r_node(0), the only node marked initially, was not sampled, and a walker
\* carried the mark over two nodes or more.
ParallelScanEqualsSerialScanWitness ==
  /\ pc = "scan2" /\ AllDone /\ ~debug /\ n = 3
  /\ Size(sampled_id) = 3
  /\ ~link_list[r_nodeid(0)].sampled
  /\ \E i \in DOMAIN task : task[i].steps >= 2 /\ task[i].valid

\* C19 as stated: in the second walker loop (the final scan) no walker has
\* started to walk while the nxt link of some sampled node is not yet the one
\* saved in sampled_id_nxt_initial.
RestoreBeforeScan ==
  (pc = "scan2" /\ \E i \in DOMAIN task : task[i].pc = "walk" \/ task[i].steps >= 1)
    => \A j \in DOMAIN sampled_id :
         link_list[sampled_id[j]].nxt = sampled_id_nxt_initial[j]

\* C20: for every block size, once all blocks of FindFurthestParallel have
\* run, in whatever order, furthest_id is the array one pass
\* FindFurthestSerial(0, n) computes (so the DEBUG comparison of FindFurthest
\* never fails); and no block reads or writes a furthest_id slot that another
\* block writes.
BlocksEqualSerialPass ==
  /\ ((pc = "FindFurthest" /\ AllDone) \/ pc = "BuildLinkList") =>
       furthest_id = FindFurthestSerial(Filled(n, 0), 0, n)
  /\ pc = "FindFurthest" => \A x \in acc : \A y \in acc : ~Conflict(x, y)
  /\ failed # "FindFurthest:123"

\* C20: a release run on four intervals in four blocks of one, with jumps that
\* leave their blocks, has left FindFurthest.
BlocksEqualSerialPassWitness ==
  /\ pc = "BuildLinkList" /\ ~debug /\ n = 4
  /\ parallel_block_size = 1
  /\ Size(task) = 4
  /\ furthest_id[0] >= 2 /\ furthest_id[1] = 3

\* C21: after FindFurthest, furthest_id[i] >= i for all i, furthest_id[i] > i
\* for i < n - 1 and furthest_id[n-1] = n - 1; so n - 1 is the only fixed point
\* and the jumps from any index lead to it.
FurthestAdvances ==
  pc = "BuildLinkList" =>
    /\ \A i \in 0..(n - 1) : furthest_id[i] \in i..(n - 1)
    /\ \A i \in 0..(n - 2) : furthest_id[i] > i
    /\ furthest_id[n - 1] = n - 1
    /\ \A i \in 0..(n - 1) : n - 1 \in PathFrom(i, n)

\* C21: FindFurthest is done on four intervals in two blocks; the jumps from 0
\* take two steps, 0 -> 2 -> 3.
FurthestAdvancesWitness ==
  /\ pc = "BuildLinkList" /\ n = 4
  /\ parallel_block_size = 2
  /\ furthest_id[0] = 2 /\ furthest_id[2] = 3
  /\ PathFrom(0, n) = {0, 2, 3}

RECURSIVE Chain(_, _, _)
\* The nodes met by following nxt from node_id, in order, at most fuel of them.
Chain(ll, node_id, fuel) ==
  IF node_id = kNullPtr \/ fuel = 0 THEN <<>>
  ELSE <<node_id>> \o Chain(ll, ll[node_id].nxt, fuel - 1)

\* C22: after BuildLinkList, following nxt from l_node(n-1) meets each of the
\* 2n nodes exactly once and then kNullPtr, r_node(n-1) being the last node,
\* 2n - 1 steps from the start; the DEBUG assertions at the end of
\* BuildLinkList never fail.
OneChain ==
  /\ pc = "ScanLinkList" =>
       LET c == Chain(link_list, l_nodeid(n - 1), 2 * n + 1)
       IN  /\ Len(c) = 2 * n
           /\ {c[k] : k \in 1..Len(c)} = 0..(2 * n - 1)
           /\ c[2 * n] = r_nodeid(n - 1)
           /\ link_list[r_nodeid(n - 1)].nxt = kNullPtr
  /\ failed # "BuildLinkList:191"

\* C22: the list of four intervals is built; intervals 0 and 1 are children
\* of the same interval, which is not the last.
OneChainWitness ==
  /\ pc = "ScanLinkList" /\ n = 4
  /\ furthest_id[0] = furthest_id[1] /\ furthest_id[1] = 2
  /\ link_list[r_nodeid(0)].nxt = l_nodeid(1)

\* C23: in the linking loop of BuildLinkList and in both walker loops of
\* ScanLinkListParallel, no field (nxt, valid) of a list node is written by
\* two different iterations of the loop.
WritesDisjoint ==
  \A x \in acc : \A y \in acc :
    (/\ x[3] = "link_list" /\ y[3] = "link_list"
     /\ x[2] = "w" /\ y[2] = "w"
     /\ x[4] = y[4] /\ x[5] = y[5]) => x[1] = y[1]

\* C23: the second walker loop of a run on three intervals has finished; its
\* three iterations have each written a flag and a link.
WritesDisjointWitness ==
  /\ pc = "scan2" /\ AllDone /\ n = 3
  /\ \A i \in 0..2 :
       /\ \E x \in acc : x[1] = i /\ x[2] = "w" /\ x[5] = "valid"
       /\ \E x \in acc : x[1] = i /\ x[2] = "w" /\ x[5] = "nxt"

\* The sampled nodes in the order in which the chain BuildLinkList built
\* meets them.
SampledInChainOrder ==
  LET IsSampled(x) == link_list[x].sampled
  IN  SelectSeq(Chain(BuiltList, l_nodeid(n - 1), 2 * n + 1), IsSampled)

\* C24: when the first walker loop has finished, the nxt of every sampled node
\* is the next sampled node on the original chain, kNullPtr for the last one;
\* so following nxt from sampled_id[0] meets every sampled node once, in chain
\* order, and then kNullPtr, |sampled_id| nodes in all.
SketchIsChainOfSamples ==
  (pc = "scan1" /\ AllDone) =>
    LET o == SampledInChainOrder
        c == Chain(link_list, sampled_id[0], Size(sampled_id) + 1)
    IN  /\ c = o
        /\ Len(c) = Size(sampled_id)
        /\ {c[k] : k \in 1..Len(c)} = {sampled_id[i] : i \in DOMAIN sampled_id}
        /\ \A k \in 1..Len(o) :
             link_list[o[k]].nxt = IF k < Len(o) THEN o[k + 1] ELSE kNullPtr

\* C24: the first walker loop is over with three sampled nodes that were not
\* drawn in chain order: the third drawn comes second on the chain.
SketchIsChainOfSamplesWitness ==
  /\ pc = "scan1" /\ AllDone /\ n = 3
  /\ Size(sampled_id) = 3
  /\ link_list[sampled_id[0]].nxt = sampled_id[2]
  /\ link_list[sampled_id[2]].nxt = sampled_id[1]

\* C25: when ScanLinkListParallel returns, under every interleaving, the nxt
\* of every node is what it was when BuildLinkList returned: every link the
\* first loop contracted is restored.
LinksRestored ==
  (pc = "scan2" /\ AllDone) =>
    /\ DOMAIN link_list = DOMAIN BuiltList
    /\ \A x \in DOMAIN link_list : link_list[x].nxt = BuiltList[x].nxt

\* C25: ScanLinkListParallel is at its end with three sampled nodes, two of
\* which were followed by a node that is not sampled, so that their links had
\* been contracted.
LinksRestoredWitness ==
  /\ pc = "scan2" /\ AllDone /\ n = 3
  /\ Size(sampled_id) = 3
  /\ \E i \in 0..2 : \E j \in 0..2 :
       /\ i # j
       /\ sampled_id_nxt_initial[i] # kNullPtr
       /\ ~link_list[sampled_id_nxt_initial[i]].sampled
       /\ sampled_id_nxt_initial[j] # kNullPtr
       /\ ~link_list[sampled_id_nxt_initial[j]].sampled

\* C26: after BuildSampleId, sampled_id[0] is l_nodeid(n-1), no node id occurs
\* twice in sampled_id, its length lies between 1 and
\* 1 + ceil(2n / parallel_block_size), and the assertion
\* actual_sampled < total_sampled_max has not failed.
SampleWellFormed ==
  /\ pc = "scan1" =>
       /\ Size(sampled_id) >= 1
       /\ Size(sampled_id) <=
            1 + (2 * n + parallel_block_size - 1) \div parallel_block_size
       /\ DOMAIN sampled_id = 0..(Size(sampled_id) - 1)
       /\ sampled_id[0] = l_nodeid(n - 1)
       /\ \A i \in DOMAIN sampled_id : \A j \in DOMAIN sampled_id :
            sampled_id[i] = sampled_id[j] => i = j
  /\ failed # "BuildSampleId:218"

\* C26: a DEBUG run on three intervals has sampled; the head was drawn again
\* and entered once, two nodes are sampled out of three draws.
SampleWellFormedWitness ==
  /\ pc = "scan1" /\ debug /\ n = 3
  /\ rnd[1] = l_nodeid(n - 1) /\ rnd[2] # rnd[1]
  /\ Size(sampled_id) = 2
  /\ \A i \in DOMAIN task : task[i].pc = "ready"

\* The nodes whose sampled flag is set.
SampledSet == {x \in DOMAIN link_list : link_list[x].sampled}

\* The call of sample that first names node x: 0 for the head, else the index
\* of the first draw equal to x.
FirstDraw(x) ==
  IF x = l_nodeid(n - 1) THEN 0
  ELSE CHOOSE k \in 1..(TotalSampledMax - 1) :
         rnd[k] = x /\ \A m \in 1..(k - 1) : rnd[m] # x

\* C27 as stated: after BuildSampleId, sampled_id is in ascending order and
\* holds exactly the nodes whose sampled flag is set.
SampleSorted ==
  pc = "scan1" =>
    /\ \A i \in DOMAIN sampled_id : \A j \in DOMAIN sampled_id :
         i < j => sampled_id[i] < sampled_id[j]
    /\ {sampled_id[i] : i \in DOMAIN sampled_id} = SampledSet

\* C27 amended: after BuildSampleId, sampled_id holds exactly the nodes whose
\* sampled flag is set, each once, in the order in which they were first
\* drawn, l_nodeid(n-1) first.
SampleInDrawOrder ==
  pc = "scan1" =>
    /\ {sampled_id[i] : i \in DOMAIN sampled_id} = SampledSet
    /\ Size(sampled_id) = Cardinality(SampledSet)
    /\ \A i \in DOMAIN sampled_id : \A j \in DOMAIN sampled_id :
         i < j => FirstDraw(sampled_id[i]) < FirstDraw(sampled_id[j])

\* C27: three nodes are sampled on three intervals, in descending order.
SampleInDrawOrderWitness ==
  /\ pc = "scan1" /\ n = 3
  /\ Size(sampled_id) = 3
  /\ sampled_id[0] > sampled_id[1] /\ sampled_id[1] > sampled_id[2]
  /\ SampledSet = {sampled_id[0], sampled_id[1], sampled_id[2]}

\* C28: after FindFurthest, furthest_id is non-decreasing, so the indices that
\* share one value of furthest_id are consecutive: comparing furthest_id[i]
\* with furthest_id[i-1] and furthest_id[i+1], as BuildLinkList does, tells
\* whether i is the first or the last of them.
FurthestMonotone ==
  pc = "BuildLinkList" =>
    /\ \A i \in 0..(n - 2) : furthest_id[i] <= furthest_id[i + 1]
    /\ \A i \in 0..(n - 1) : \A j \in 0..(n - 1) : \A k \in 0..(n - 1) :
         (i < k /\ k < j /\ furthest_id[i] = furthest_id[j])
           => furthest_id[k] = furthest_id[i]

\* C28: FindFurthest is done on four intervals in blocks of one; intervals 0
\* and 1 share the value 2, interval 2 jumps further.
FurthestMonotoneWitness ==
  /\ pc = "BuildLinkList" /\ n = 4
  /\ parallel_block_size = 1
  /\ furthest_id[0] = 2 /\ furthest_id[1] = 2 /\ furthest_id[2] = 3

----------------------------------------------------------------------------
(* generate_intervals of test_utils.h.  Its values are C++ ints; IntBits    *)
(* stands for their 32 bits, scaled down with the parameters.  A signed     *)
(* addition that leaves the range is undefined: the build either wraps it   *)
(* or traps.  parlay::random's hash is not part of the repository: every    *)
(* value of ith_rand(i) up to MaxDraw is considered, and it is a function   *)
(* of the seed and i only, so both calls below draw the same values.        *)

IntBits == 5
MaxGenN == 3
MaxGenParam == 8
MaxDraw == 1

IntMax == 2^(IntBits - 1) - 1

Wrap(x) == ((x + IntMax + 1) % (2 * (IntMax + 1))) - (IntMax + 1)

\* a[0] + ... + a[k - 1]
RECURSIVE Sum(_, _)
Sum(a, k) == IF k = 0 THEN 0 ELSE Sum(a, k - 1) + a[k - 1]

ith_rand(i) == gen.draws[i]

steps == [i \in 0..(gen.n - 1) |->
            gen.step_min + (ith_rand(2 * i) % (gen.step_max - gen.step_min + 1))]

lens == [i \in 0..(gen.n - 1) |->
           gen.len_min + (ith_rand(2 * i + 1) % (gen.len_max - gen.len_min + 1))]

\* parlay::scan_inplace: the exclusive prefix sums, added as ints.
scan_inplace(a) == [i \in DOMAIN a |-> Wrap(Sum(a, i))]

\* The scan also adds up the total of the whole sequence, which it returns.
ScanOverflows(a) == Sum(a, Size(a)) > IntMax

rights == [i \in 0..(gen.n - 1) |-> Wrap(gen.lefts[i] + gen.lens[i])]

RightsOverflow == \E i \in 0..(gen.n - 1) : gen.lefts[i] + gen.lens[i] > IntMax

intervals == [i \in 0..(gen.n - 1) |-> <<gen.lefts[i], gen.rights[i]>>]

GenParams ==
  {p \in [step_min : 0..MaxGenParam, step_max : 0..MaxGenParam,
          len_min : 0..MaxGenParam, len_max : 0..MaxGenParam] :
     /\ p.step_min <= p.step_max
     /\ p.step_max <= p.len_min
     /\ p.len_min <= p.len_max
     /\ p.step_min > p.len_max - p.len_min}

solver == <<n, L, R, debug, parallel_block_size, rnd, calls, pc, failed, runs,
            furthest_id, link_list, valid, sampled_id, sampled_id_nxt_initial,
            task, acc, saved_valid, valid_parallel, first_valid>>

\* A test about to call generate_intervals twice with the same arguments.
InitGenerate ==
  /\ \E k \in 0..MaxGenN, p \in GenParams :
       \E d \in [0..(2 * k - 1) -> 0..MaxDraw] :
         gen = [pc |-> "idle", calls |-> 0, n |-> k,
                step_min |-> p.step_min, step_max |-> p.step_max,
                len_min |-> p.len_min, len_max |-> p.len_max,
                draws |-> d,
                steps |-> Filled(0, 0), lens |-> Filled(0, 0),
                lefts |-> Filled(0, 0), rights |-> Filled(0, 0),
                intervals |-> Filled(0, 0), first |-> Filled(0, 0)]
  /\ n = 0
  /\ L = Filled(0, 0)
  /\ R = Filled(0, 0)
  /\ debug = TRUE
  /\ parallel_block_size = BlockSize
  /\ rnd = Filled(0, 0)
  /\ calls = 0
  /\ pc = "idle"
  /\ failed = ""
  /\ runs = 0
  /\ furthest_id = Filled(0, 0)
  /\ link_list = Filled(0, 0)
  /\ valid = Filled(0, 0)
  /\ sampled_id = Filled(0, 0)
  /\ sampled_id_nxt_initial = Filled(0, 0)
  /\ task = Filled(0, 0)
  /\ acc = {}
  /\ saved_valid = Filled(0, 0)
  /\ valid_parallel = Filled(0, 0)
  /\ first_valid = Filled(0, 0)

\* The call and its two assertions.
generate_intervals ==
  /\ gen.pc \in {"idle", "done"}
  /\ gen.calls < 2
  /\ gen' = [gen EXCEPT !.pc = IF /\ gen.step_max <= gen.len_min
                                  /\ gen.step_min > gen.len_max - gen.len_min
                               THEN "steps" ELSE "aborted"]
  /\ UNCHANGED solver

TabulateSteps ==
  /\ gen.pc = "steps"
  /\ gen' = [gen EXCEPT !.pc = "lens", !.steps = steps]
  /\ UNCHANGED solver

TabulateLens ==
  /\ gen.pc = "lens"
  /\ gen' = [gen EXCEPT !.pc = "scan", !.lens = lens]
  /\ UNCHANGED solver

ScanLefts ==
  /\ gen.pc = "scan"
  /\ gen' = [gen EXCEPT !.pc = "rights", !.lefts = scan_inplace(gen.steps)]
  /\ UNCHANGED solver

ScanLeftsTrap ==
  /\ gen.pc = "scan"
  /\ ScanOverflows(gen.steps)
  /\ gen' = [gen EXCEPT !.pc = "trapped"]
  /\ UNCHANGED solver

TabulateRights ==
  /\ gen.pc = "rights"
  /\ gen' = [gen EXCEPT !.pc = "pairs", !.rights = rights]
  /\ UNCHANGED solver

TabulateRightsTrap ==
  /\ gen.pc = "rights"
  /\ RightsOverflow
  /\ gen' = [gen EXCEPT !.pc = "trapped"]
  /\ UNCHANGED solver

TabulatePairs ==
  /\ gen.pc = "pairs"
  /\ gen' = [gen EXCEPT !.pc = "done", !.calls = @ + 1,
                        !.intervals = intervals,
                        !.first = IF gen.calls = 0 THEN intervals ELSE @]
  /\ UNCHANGED solver

NextGenerate ==
  \/ generate_intervals
  \/ TabulateSteps
  \/ TabulateLens
  \/ ScanLefts
  \/ ScanLeftsTrap
  \/ TabulateRights
  \/ TabulateRightsTrap
  \/ TabulatePairs

SpecGenerate == InitGenerate /\ [][NextGenerate]_vars

\* The four constraints generate_intervals documents for its result.
Constraints(iv) ==
  /\ \A i \in 0..(Size(iv) - 2) :
       /\ iv[i][1] < iv[i + 1][1]
       /\ iv[i][2] < iv[i + 1][2]
       /\ iv[i + 1][1] <= iv[i][2]
  /\ \A i \in 0..(Size(iv) - 1) : iv[i][1] < iv[i][2]

\* C29  Whatever n, the seed and the parameters with
\* step_min <= step_max <= len_min <= len_max and step_min > len_max - len_min,
\* generate_intervals returns n intervals with strictly increasing left and
\* right endpoints, each of positive length and each starting no later than the
\* one before it ends, and a second call with the same arguments returns the
\* same intervals.
GenerateMeetsConstraints ==
  /\ gen.pc # "trapped"
  /\ gen.pc = "done" =>
       /\ Size(gen.intervals) = gen.n
       /\ Constraints(gen.intervals)
       /\ gen.calls = 2 => gen.intervals = gen.first

====
